---- MODULE Spec2Model ----
(***************************************************************************)
(* State-machine model of the synk-backend user API.                       *)
(*                                                                         *)
(* The identity provider (Firebase Authentication) and the document store  *)
(* (the Firestore collection 'users') are the two pieces of shared state.  *)
(* A request is a slot that walks through its handler: every `await` of    *)
(* the handler is one step, made of the effect of the awaited external     *)
(* call and of the synchronous code that follows it up to the next await   *)
(* or the response.  An external call may fail at any time.                *)
(***************************************************************************)
EXTENDS Integers, Sequences, FiniteSets, TLC

\* ------------------------------------------------------------------ bounds

\* Server timestamps handed out by the document store: every write takes one.
MaxClock == 3
\* Accounts the identity provider ever creates (uids are never reused).
MaxAccounts == 2

\* ------------------------------------------------------------ string helpers
\* Strings that the code takes apart are sequences of one-character strings.

IsSpace(c) == c = " "

RECURSIVE TrimLeft(_)
TrimLeft(s) == IF s # <<>> /\ IsSpace(Head(s)) THEN TrimLeft(Tail(s)) ELSE s

RECURSIVE TrimRight(_)
TrimRight(s) ==
    IF s # <<>> /\ IsSpace(s[Len(s)]) THEN TrimRight(SubSeq(s, 1, Len(s) - 1)) ELSE s

\* String.prototype.trim
Trim(s) == TrimRight(TrimLeft(s))

\* String.prototype.startsWith
StartsWith(s, p) == Len(s) >= Len(p) /\ SubSeq(s, 1, Len(p)) = p

\* String.prototype.endsWith
EndsWith(s, p) == Len(s) >= Len(p) /\ SubSeq(s, Len(s) - Len(p) + 1, Len(s)) = p

\* s.slice(n) for n >= 0
SliceFrom(s, n) == SubSeq(s, n + 1, Len(s))

\* s.slice(1, -1)
SliceInner(s) == SubSeq(s, 2, Len(s) - 1)

\* s.split('.').length : one more than the number of dots
SplitDotLength(s) == Cardinality({i \in 1..Len(s) : s[i] = "."}) + 1

\* ----------------------------------------------------------- JSON objects
\* A JSON object (a request body, a document) is a function from field names
\* to values; an absent field is a name outside the domain.

EmptyObj == [f \in {} |-> 0]

\* { ...a, ...b } : the fields of b win
Spread(a, b) ==
    [f \in (DOMAIN a) \cup (DOMAIN b) |-> IF f \in DOMAIN b THEN b[f] ELSE a[f]]

\* JavaScript truthiness of a string-valued body field: absent (undefined) and
\* the empty string are falsy.
Truthy(obj, f) == f \in DOMAIN obj /\ obj[f] # ""

\* ------------------------------------------------------------ identifiers

\* The uid of the k-th account the identity provider created.
Uid(k) == <<"u", k>>
\* The document id the store generates for an add() at server time n.
AutoId(n) == <<"g", n>>
\* A path parameter that names nothing.
NoSuchId == <<"x", 0>>
\* The absent value of a local (undefined / null).
Null == <<"null", 0>>

UserIds == {Uid(k) : k \in 1..MaxAccounts}
PathIds == UserIds \cup {AutoId(1), NoSuchId}

Emails == {"e1", "e2"}

\* ------------------------------------------------------------------ tokens
\* The ID token the identity provider issues for account k is TokChar[k]
\* three times, joined by dots.

TokChars == <<"a", "b", "c", "d">>
TokenOf(k) == <<TokChars[k], ".", TokChars[k], ".", TokChars[k]>>

Bearer == <<"B", "e", "a", "r", "e", "r", " ">>
LowerBearer == <<"b", "e", "a", "r", "e", "r", " ">>
DQ == "\""
SQ == "'"

\* Authorization headers a client may send.
Headers ==
    { <<>>,                                         \* no header
      <<" ", " ">>,                                 \* blank
      TokenOf(1),                                   \* the token alone
      LowerBearer \o TokenOf(1),                    \* wrong case
      <<"B", "e", "a", "r", "e", "r">>,             \* 'Bearer' and nothing else
      Bearer \o TokenOf(1),
      Bearer \o TokenOf(2),
      <<" ">> \o Bearer \o <<" ">> \o TokenOf(1) \o <<" ">>,
      Bearer \o <<DQ>> \o TokenOf(1) \o <<DQ>>,     \* quoted by a shell
      Bearer \o <<SQ>> \o TokenOf(2) \o <<SQ>>,
      Bearer \o <<DQ>> \o TokenOf(1),               \* unbalanced quote
      Bearer \o <<DQ>>,                             \* a lone quote
      Bearer \o <<"a", ".", "a">>,                  \* two parts
      Bearer \o <<"a", ".", "a", ".", "a", ".", "a">>,  \* four parts
      Bearer \o <<"a", ".", ".", "a">>,             \* three parts, one empty
      Bearer \o <<"a", ".", "b", ".", "a">> }       \* three parts, not issued

\* The headers sent on the routes that also take a path parameter.
ShortHeaders == {<<>>, Bearer \o TokenOf(1), Bearer \o TokenOf(2)}

\* -------------------------------------------------------------- state

VARIABLES
    accounts,   \* identity provider: the accounts ever created, by uid number
    users,      \* document store: the 'users' collection, document id -> data
    clock,      \* document store: the next server timestamp
    req,        \* the requests in flight: slot -> request
    pre         \* slot -> accounts and users as they were when the request arrived

vars == <<accounts, users, clock, req, pre>>

\* The one slot of the sequential specification; both slots of the concurrent one.
SeqSlots == {"r1"}
Slots == {"r1", "r2"}

NoUser == [uid |-> Null, email |-> ""]

IdleReq ==
    [route |-> "idle", pc |-> "idle", body |-> EmptyObj, header |-> <<>>,
     id |-> Null, user |-> NoUser, token |-> <<>>, verified |-> <<>>,
     handler |-> FALSE, status |-> 0, msg |-> "", calls |-> {},
     checked |-> "unset", uid |-> Null, deleted |-> "unset", newId |-> Null,
     updated |-> FALSE, ret |-> EmptyObj, sent |-> 0, faults |-> {},
     removed |-> FALSE, outToken |-> <<>>, decoded |-> EmptyObj, during |-> {}]

NoSnapshot == [accounts |-> <<>>, users |-> EmptyObj]

\* The slots whose request is between its arrival and its response.
InFlight == {s \in Slots : req[s].pc \notin {"idle", "done"}}

\* A request that has just arrived on `route`; `during` keeps the requests it
\* arrived in the middle of.
NewReq(route, body, header, id) ==
    Spread(IdleReq, [route |-> route, body |-> body, header |-> header, id |-> id,
                     during |-> InFlight])

\* res.status(status).json({ message: msg }) : the request is answered.
Respond(q, status, msg) ==
    Spread(q, [pc |-> "done", status |-> status, msg |-> msg, sent |-> q.sent + 1])

\* The request issues the external call `call` and waits for it at `pc`.
Await(q, pc, call) == Spread(q, [pc |-> pc, calls |-> q.calls \cup {call}])

\* The external call `call` of the request threw though the provider or the
\* store could have served it (an outage, a timeout, a quota).
Fault(q, call) == Spread(q, [faults |-> q.faults \cup {call}])

Idle(r) == req[r].pc = "idle"
AllIdle == \A r \in Slots : Idle(r)

\* ------------------------------------------------- identity provider (SDK)

LiveUids == {k \in 1..Len(accounts) : accounts[k].live}

\* auth.getUserByEmail : the live account with that email, if any
AccountByEmail(email) == {k \in LiveUids : accounts[k].email = email}

\* auth.createUser : a new account under a uid never used before, signing in
\* with a password.  `info` holds the optional claims of the account's ID
\* tokens: name, picture, provider (firebase.sign_in_provider).
AccountsAdd(email, password, displayName) ==
    Append(accounts, [email |-> email, password |-> password, live |-> TRUE,
                      info |-> [name |-> displayName, provider |-> "password"]])

\* The optional claims of the accounts that clients create by signing in with
\* a provider: none at all, or a three-word name, a picture and the provider.
SocialInfos ==
    { EmptyObj,
      [name |-> <<"Bo", " ", "Di", " ", "Fox">>, picture |-> "pic",
       provider |-> "google.com"] }

\* A client signs in with a provider for the first time: the identity
\* provider creates the account (one account per email).
AccountsAddSocial(email, info) ==
    Append(accounts, [email |-> email, password |-> "", live |-> TRUE, info |-> info])

\* The decoded ID token of account k.
Decoded(k) == Spread(accounts[k].info, [uid |-> Uid(k), email |-> accounts[k].email])

\* auth.deleteUser
AccountsRemove(k) == [accounts EXCEPT ![k].live = FALSE]

\* The uid number an issued token decodes to; 0 when no account was issued it.
DecodeToken(token) ==
    IF \E k \in 1..Len(accounts) : TokenOf(k) = token
    THEN CHOOSE k \in 1..Len(accounts) : TokenOf(k) = token
    ELSE 0

\* --------------------------------------------------- document store (SDK)

\* DocumentReference.set : the document becomes exactly `data`
DocSet(coll, id, data) ==
    [d \in (DOMAIN coll) \cup {id} |-> IF d = id THEN data ELSE coll[d]]

\* DocumentReference.update on an existing document : the named fields are
\* overwritten, the others kept
DocUpdate(coll, id, data) == [coll EXCEPT ![id] = Spread(@, data)]

\* DocumentReference.delete
DocDelete(coll, id) == [d \in (DOMAIN coll) \ {id} |-> coll[d]]

\* FieldValue.serverTimestamp() resolves to the store's time of the write.
Now == clock

CanWrite == clock <= MaxClock

\* ------------------------------------------------------------ generic DAO

\* Faulty variant of DaoCreateData: the spread last, so the document's own createdAt
\* and updatedAt win.
DaoCreateDataDocWins(doc, now) == Spread([createdAt |-> now, updatedAt |-> now], doc)

\* GlobalDAO.create : { ...doc, createdAt: now, updatedAt: now }
DaoCreateData(doc, now) == Spread(doc, [createdAt |-> now, updatedAt |-> now])

\* GlobalDAO.getById : null (the empty object here) or { id: doc.id, ...data }
DaoGetById(coll, id) ==
    IF id \notin DOMAIN coll THEN EmptyObj ELSE Spread([id |-> id], coll[id])

\* Faulty variant of DaoUpdateData: the spread last, so the patch's own updatedAt wins.
DaoUpdateDataDataWins(data, now) == Spread([updatedAt |-> now], data)

\* GlobalDAO.update : { ...data, updatedAt: serverTimestamp() }
DaoUpdateData(data, now) == Spread(data, [updatedAt |-> now])

\* Faulty variant of DaoDeleteExists: no existence check before the removal.
DaoDeleteExistsAlways(coll, id) == TRUE

\* GlobalDAO.delete : doc.exists, read before the removal
DaoDeleteExists(coll, id) == id \in DOMAIN coll

\* ------------------------------------------------------- auth middleware

\* The token the middleware takes from the trimmed header: what follows
\* 'Bearer ', trimmed, without one pair of surrounding quotes.
AuthToken(header) ==
    LET t == Trim(SliceFrom(header, Len(Bearer)))
    IN  IF \/ StartsWith(t, <<DQ>>) /\ EndsWith(t, <<DQ>>)
           \/ StartsWith(t, <<SQ>>) /\ EndsWith(t, <<SQ>>)
        THEN SliceInner(t)
        ELSE t

\* The middleware's checks before it calls the identity provider: status 0
\* means the token goes to verifyIdToken.
AuthPrecheck(h) ==
    LET header == Trim(h)
    IN  IF header = <<>>
        THEN [status |-> 401, msg |-> "Missing Authorization header", token |-> <<>>]
        ELSE IF ~StartsWith(header, Bearer)
        THEN [status |-> 401, msg |-> "Missing Bearer token in Authorization header",
              token |-> <<>>]
        ELSE IF SplitDotLength(AuthToken(header)) # 3
        THEN [status |-> 400, msg |-> "Malformed ID token", token |-> <<>>]
        ELSE [status |-> 0, msg |-> "", token |-> AuthToken(header)]

\* The first await of the handler that next() runs on each protected route.
HandlerEntry(q) ==
    CASE q.route = "me"     -> IF q.user.uid = Null
                               THEN Respond(q, 401, "Unauthorized")
                               ELSE Await(q, "me_get", "getById")
      [] q.route = "update" -> Await(q, "update_dao", "update")
      [] q.route = "delete" -> Await(q, "delete_get", "get")

\* Faulty variant of AuthRejected: the failure is logged and next() runs all the same.
AuthRejectedCallsNext(q) == HandlerEntry(Spread(q, [handler |-> TRUE]))

\* What the middleware does when verifyIdToken fails.
AuthRejected(q) == Respond(q, 401, "Invalid or expired token")

\* What the middleware does when verifyIdToken returned the decoded token of
\* account k: req.user is attached and next() runs the handler.
AuthAccepted(q, k) ==
    HandlerEntry(Spread(q, [user |-> [uid |-> Uid(k), email |-> accounts[k].email],
                            verified |-> q.token, handler |-> TRUE]))

Snapshot == [accounts |-> accounts, users |-> users]

\* GET /users/me, PUT /users/:id, DELETE /users/:id arrive: the middleware
\* runs up to its first await.
ProtectedArrive(r, route, header, id, body) ==
    /\ Idle(r)
    /\ LET q   == NewReq(route, body, header, id)
           chk == AuthPrecheck(header)
       IN  req' = [req EXCEPT ![r] =
                     IF chk.status # 0
                     THEN Respond(q, chk.status, chk.msg)
                     ELSE Await(Spread(q, [token |-> chk.token]),
                                "auth_verify", "verifyIdToken")]
    /\ pre' = [pre EXCEPT ![r] = Snapshot]
    /\ UNCHANGED <<accounts, users, clock>>

\* auth.verifyIdToken(idToken) returns or throws.
AuthVerify(r) ==
    /\ req[r].pc = "auth_verify"
    /\ \/ /\ DecodeToken(req[r].token) # 0
          /\ req' = [req EXCEPT ![r] = AuthAccepted(@, DecodeToken(@.token))]
       \/ req' = [req EXCEPT ![r] =
                    AuthRejected(IF DecodeToken(@.token) # 0
                                 THEN Fault(@, "verifyIdToken") ELSE @)]
    /\ UNCHANGED <<accounts, users, clock, pre>>

\* ------------------------------------------------- UserController.register

RegisterBodyOk == [firstName |-> "Ann", lastName |-> "Lee", email |-> "e1", password |-> "pw"]
RequiredFields == {"firstName", "lastName", "email", "password"}

\* Bodies of POST /users/register: complete ones, and ones with a required
\* field absent or empty.
RegisterBodies ==
    {[RegisterBodyOk EXCEPT !.email = e] : e \in Emails}
    \cup {[RegisterBodyOk EXCEPT ![f] = ""] : f \in RequiredFields}
    \cup {[f \in RequiredFields \ {g} |-> RegisterBodyOk[f]] : g \in RequiredFields}
    \cup {EmptyObj}

\* Faulty variant of RegisterValid: the password is not checked.
RegisterValidNoPassword(body) ==
    /\ Truthy(body, "firstName")
    /\ Truthy(body, "lastName")
    /\ Truthy(body, "email")

\* !firstName || !lastName || !email || !password is false
RegisterValid(body) ==
    /\ Truthy(body, "firstName")
    /\ Truthy(body, "lastName")
    /\ Truthy(body, "email")
    /\ Truthy(body, "password")

\* typeof age === 'number' ? age : Number(age) || 0, for a number or no age
AgeOf(body) == IF "age" \in DOMAIN body THEN body.age ELSE 0

\* photo ?? ''
PhotoOf(body) == IF "photo" \in DOMAIN body THEN body.photo ELSE ""

\* Faulty variant of RegisterProfile: the profile starts online.
RegisterProfileOnline(uid, body, now) ==
    [id |-> uid, firstName |-> body.firstName, lastName |-> body.lastName,
     email |-> body.email, age |-> AgeOf(body), photo |-> PhotoOf(body),
     oauth |-> <<>>, createdAt |-> now, updatedAt |-> now, status |-> "online"]

\* The profile document register writes for the new account.
RegisterProfile(uid, body, now) ==
    [id |-> uid, firstName |-> body.firstName, lastName |-> body.lastName,
     email |-> body.email, age |-> AgeOf(body), photo |-> PhotoOf(body),
     oauth |-> <<>>, createdAt |-> now, updatedAt |-> now, status |-> "offline"]

\* displayName: `${firstName} ${lastName}`, as words and spaces
DisplayName(body) == <<body.firstName, " ", body.lastName>>

\* The ways auth.getUserByEmail ends: it returns the account, or throws an
\* error with the code 'auth/user-not-found', with another code, or with none.
CheckOutcomes(email) ==
    (IF AccountByEmail(email) # {} THEN {"found"} ELSE {"auth/user-not-found"})
    \cup {"auth/internal-error", ""}

\* Faulty variant of RegisterAfterCheck: an account that is found does not end the
\* request.
RegisterAfterCheckIgnoringFound(q, outcome) ==
    IF outcome # "found" /\ outcome # "" /\ outcome # "auth/user-not-found"
    THEN Respond(q, 500, "Internal error")
    ELSE Await(q, "reg_create", "createUser")

\* The inner try/catch around the existence check.
RegisterAfterCheck(q, outcome) ==
    IF outcome = "found"
    THEN Respond(q, 409, "Email already registered")
    ELSE IF outcome # "" /\ outcome # "auth/user-not-found"
    THEN Respond(q, 500, "Internal error")
    ELSE Await(q, "reg_create", "createUser")

RegisterArrive(r, body) ==
    /\ Idle(r)
    /\ LET q == NewReq("register", body, <<>>, Null)
       IN  req' = [req EXCEPT ![r] =
                     IF ~RegisterValid(body)
                     THEN Respond(q, 400, "Missing required fields")
                     ELSE Await(q, "reg_check", "getUserByEmail")]
    /\ pre' = [pre EXCEPT ![r] = Snapshot]
    /\ UNCHANGED <<accounts, users, clock>>

RegisterCheck(r) ==
    /\ req[r].pc = "reg_check"
    /\ \E outcome \in CheckOutcomes(req[r].body.email) :
          req' = [req EXCEPT ![r] =
                    RegisterAfterCheck(
                        Spread(IF outcome \in {"found", "auth/user-not-found"}
                               THEN @ ELSE Fault(@, "getUserByEmail"),
                               [checked |-> outcome]),
                        outcome)]
    /\ UNCHANGED <<accounts, users, clock, pre>>

\* auth.createUser threw: the outer catch answers 500.
RegisterCreateFailed(r) ==
    /\ req' = [req EXCEPT ![r] =
                 Respond(IF AccountByEmail(@.body.email) = {}
                         THEN Fault(@, "createUser") ELSE @,
                         500, "Registration failed")]
    /\ UNCHANGED <<accounts, users, clock>>

\* auth.createUser returns the new account, or throws (it always throws for an
\* email that a live account has).
RegisterCreate(r) ==
    /\ req[r].pc = "reg_create"
    /\ \/ /\ AccountByEmail(req[r].body.email) = {}
          /\ Len(accounts) < MaxAccounts
          /\ accounts' = AccountsAdd(req[r].body.email, req[r].body.password,
                                     DisplayName(req[r].body))
          /\ req' = [req EXCEPT ![r] =
                       Await(Spread(@, [uid |-> Uid(Len(accounts) + 1)]), "reg_set", "set")]
          /\ UNCHANGED <<users, clock>>
       \/ RegisterCreateFailed(r)
    /\ UNCHANGED pre

\* Faulty variant of RegisterSetFailed: the account just created is deleted again.
RegisterSetFailedCompensating(r) ==
    /\ req' = [req EXCEPT ![r] = Respond(Fault(@, "set"), 500, "Registration failed")]
    /\ accounts' = AccountsRemove(req[r].uid[2])
    /\ UNCHANGED <<users, clock>>

\* db.collection('users').doc(uid).set(profile) threw: the outer catch answers
\* 500 and nothing is undone.
RegisterSetFailed(r) ==
    /\ req' = [req EXCEPT ![r] = Respond(Fault(@, "set"), 500, "Registration failed")]
    /\ UNCHANGED <<accounts, users, clock>>

RegisterSet(r) ==
    /\ req[r].pc = "reg_set"
    /\ \/ /\ CanWrite
          /\ users' = DocSet(users, req[r].uid, RegisterProfile(req[r].uid, req[r].body, Now))
          /\ clock' = clock + 1
          /\ req' = [req EXCEPT ![r] =
                       Respond(Spread(@, [ret |-> [id |-> @.uid, firstName |-> @.body.firstName,
                                                   lastName |-> @.body.lastName,
                                                   email |-> @.body.email]]),
                               201, "User registered")]
          /\ UNCHANGED accounts
       \/ RegisterSetFailed(r)
    /\ UNCHANGED pre

\* ------------------------------------------------------- UserController.me

MeArrive(r, header) == ProtectedArrive(r, "me", header, Null, EmptyObj)

\* UserDAO.getById(uid) returns the profile or null, or throws.
MeGet(r) ==
    /\ req[r].pc = "me_get"
    /\ \/ LET profile == DaoGetById(users, req[r].user.uid)
          IN  req' = [req EXCEPT ![r] =
                        IF profile = EmptyObj
                        THEN Respond(@, 404, "Profile not found")
                        ELSE Respond(Spread(@, [ret |-> profile]), 200, "")]
       \/ req' = [req EXCEPT ![r] = Respond(Fault(@, "getById"), 500, "Failed to get profile")]
    /\ UNCHANGED <<accounts, users, clock, pre>>

\* --------------------------------------------------- UserController.delete

DeleteArrive(r, header, id) == ProtectedArrive(r, "delete", header, id, EmptyObj)

\* typeof daoAny.findByEmail === 'function' : neither UserDAO nor GlobalDAO
\* defines findByEmail.
HasFindByEmail == FALSE

\* dao.delete(id) returned false: the fallback by the requester's email.
DeleteFallback(q) ==
    IF q.user.email # "" /\ HasFindByEmail
    THEN Await(q, "delete_find", "findByEmail")
    ELSE Respond(q, 404, "Not found")

\* dao.delete(id) returned true: the auth account goes too when the requester
\* is the deleted user or ALLOW_ADMIN_DELETE is set.  The handler reads
\* process.env.ALLOW_ADMIN_DELETE on every request; allowAdmin is what it reads.
DeleteAfterRemove(q, allowAdmin) ==
    IF q.user.uid = q.id \/ allowAdmin
    THEN Await(q, "delete_auth", "deleteUser")
    ELSE Respond(q, 204, "")

\* GlobalDAO.delete, first await: docRef.get()
DeleteGet(r) ==
    /\ req[r].pc = "delete_get"
    /\ \/ req' = [req EXCEPT ![r] =
                    IF DaoDeleteExists(users, @.id)
                    THEN Await(@, "delete_remove", "delete")
                    ELSE DeleteFallback(Spread(@, [deleted |-> "false"]))]
       \/ req' = [req EXCEPT ![r] = Respond(Fault(@, "get"), 500, "Delete failed")]
    /\ UNCHANGED <<accounts, users, clock, pre>>

\* GlobalDAO.delete, second await: docRef.delete()
DeleteRemove(r) ==
    /\ req[r].pc = "delete_remove"
    /\ \/ /\ users' = DocDelete(users, req[r].id)
          /\ \E allowAdmin \in BOOLEAN :
                req' = [req EXCEPT ![r] =
                          DeleteAfterRemove(
                              Spread(@, [deleted |-> "true",
                                         removed |-> @.id \in DOMAIN users]),
                              allowAdmin)]
       \/ /\ req' = [req EXCEPT ![r] = Respond(Fault(@, "delete"), 500, "Delete failed")]
          /\ UNCHANGED users
    /\ UNCHANGED <<accounts, clock, pre>>

\* auth.deleteUser(id): a failure is logged and the request still answers 204.
DeleteAuth(r) ==
    /\ req[r].pc = "delete_auth"
    /\ \/ /\ req[r].id \in {Uid(k) : k \in LiveUids}
          /\ accounts' = AccountsRemove(req[r].id[2])
          /\ req' = [req EXCEPT ![r] = Respond(@, 204, "")]
       \/ /\ UNCHANGED accounts
          /\ req' = [req EXCEPT ![r] =
                       Respond(IF @.id \in {Uid(k) : k \in LiveUids}
                               THEN Fault(@, "deleteUser") ELSE @,
                               204, "")]
    /\ UNCHANGED <<users, clock, pre>>

\* ------------------------------------- GlobalController.create and .update

\* Bodies of POST /users and PUT /users/:id.
GenericBodies ==
    { [firstName |-> "Zed", password |-> "pw"],
      [createdAt |-> 0, updatedAt |-> 0] }

\* GlobalController.create answers 201 with the new id when dao.create
\* returned, 400 when it threw.
CreateResponse(q, ok) == IF ok THEN Respond(q, 201, "") ELSE Respond(q, 400, "")

\* GlobalController.update answers 200 when dao.update returned, 400 when it
\* threw.
UpdateResponse(q, ok) == IF ok THEN Respond(q, 200, "") ELSE Respond(q, 400, "")

\* POST /users : the body goes to dao.create.
CreateArrive(r, body) ==
    /\ Idle(r)
    /\ req' = [req EXCEPT ![r] = Await(NewReq("create", body, <<>>, Null), "create_add", "add")]
    /\ pre' = [pre EXCEPT ![r] = Snapshot]
    /\ UNCHANGED <<accounts, users, clock>>

\* GlobalDAO.create : collection.add(data) returns the new reference, or throws.
CreateAdd(r) ==
    /\ req[r].pc = "create_add"
    /\ \/ /\ CanWrite
          /\ users' = DocSet(users, AutoId(clock), DaoCreateData(req[r].body, Now))
          /\ clock' = clock + 1
          /\ req' = [req EXCEPT ![r] = CreateResponse(Spread(@, [newId |-> AutoId(clock)]), TRUE)]
       \/ /\ req' = [req EXCEPT ![r] = CreateResponse(Fault(@, "add"), FALSE)]
          /\ UNCHANGED <<users, clock>>
    /\ UNCHANGED <<accounts, pre>>

UpdateArrive(r, header, id, body) == ProtectedArrive(r, "update", header, id, body)

\* GlobalDAO.update : docRef.update(data) patches an existing document, or throws
\* (it always throws when the document does not exist).
UpdateDao(r) ==
    /\ req[r].pc = "update_dao"
    /\ \/ /\ req[r].id \in DOMAIN users
          /\ CanWrite
          /\ users' = DocUpdate(users, req[r].id, DaoUpdateData(req[r].body, Now))
          /\ clock' = clock + 1
          /\ req' = [req EXCEPT ![r] = UpdateResponse(Spread(@, [updated |-> TRUE]), TRUE)]
       \/ /\ req' = [req EXCEPT ![r] =
                       UpdateResponse(IF @.id \in DOMAIN users
                                      THEN Fault(@, "update") ELSE @,
                                      FALSE)]
          /\ UNCHANGED <<users, clock>>
    /\ UNCHANGED <<accounts, pre>>

\* ------------------------------------------------------ UserController.login

\* A JSON value of a body field that the handler tests with typeof: a string
\* by its characters, a number by its digits.
JsString(chars) == [type |-> "string", val |-> chars]
JsNumber(digits) == [type |-> "number", val |-> digits]

\* JavaScript truthiness of such a field: undefined, '' and 0 are falsy.
JsTruthy(obj, f) ==
    /\ f \in DOMAIN obj
    /\ IF obj[f].type = "string" THEN obj[f].val # <<>> ELSE obj[f].val # <<"0">>

\* A token of three parts that the identity provider never issued.
BadToken == <<"a", ".", "b", ".", "a">>

\* Bodies of POST /users/login.
LoginBodies ==
    { EmptyObj,
      [idToken |-> JsString(TokenOf(1))],
      [idToken |-> JsString(TokenOf(2))],
      [idToken |-> JsString(BadToken)],
      [idToken |-> JsNumber(<<"7">>)],
      [idToken |-> JsNumber(<<"7">>), email |-> "e1", password |-> "pw"],
      [idToken |-> JsString(<<>>), email |-> "e1", password |-> "pw"],
      [idToken |-> JsString(<<>>), email |-> "e1"],
      [email |-> "e1"],
      [password |-> "pw"] }
    \cup {[email |-> e, password |-> p] : e \in Emails, p \in {"pw", "bad", ""}}

\* idToken && typeof idToken === 'string'
LoginHasIdToken(body) == JsTruthy(body, "idToken") /\ body.idToken.type = "string"

\* profile ?? { id: uid, email }
LoginUser(profile, uid, email) ==
    IF profile = EmptyObj THEN [id |-> uid, email |-> email] ELSE profile

\* POST /users/login arrives: the handler runs up to its first await.  apiKey
\* is whether process.env.FIREBASE_API_KEY is set to a non-blank value.
LoginArrive(r, body, apiKey) ==
    /\ Idle(r)
    /\ LET q == NewReq("login", body, <<>>, Null)
       IN  req' = [req EXCEPT ![r] =
                     IF LoginHasIdToken(body)
                     THEN Await(Spread(q, [token |-> body.idToken.val]),
                                "login_verify_client", "verifyIdToken")
                     ELSE IF ~Truthy(body, "email") \/ ~Truthy(body, "password")
                     THEN Respond(q, 400, "Provide idToken or email and password")
                     ELSE IF ~apiKey
                     THEN Respond(q, 500, "Server authentication not configured")
                     ELSE Await(q, "login_fetch", "signInWithPassword")]
    /\ pre' = [pre EXCEPT ![r] = Snapshot]
    /\ UNCHANGED <<accounts, users, clock>>

\* The inner try/catch of the idToken path around verifyIdToken and getById.
LoginClientCatch(q) == Respond(q, 401, "Invalid or expired token")

\* auth.verifyIdToken(idToken) on the token the client sent.
LoginVerifyClient(r) ==
    /\ req[r].pc = "login_verify_client"
    /\ \/ /\ DecodeToken(req[r].token) # 0
          /\ LET k == DecodeToken(req[r].token)
             IN  req' = [req EXCEPT ![r] =
                           Await(Spread(@, [verified |-> @.token, uid |-> Uid(k),
                                            user |-> [uid |-> Uid(k),
                                                      email |-> accounts[k].email]]),
                                 "login_get_client", "getById")]
       \/ req' = [req EXCEPT ![r] =
                    LoginClientCatch(IF DecodeToken(@.token) # 0
                                     THEN Fault(@, "verifyIdToken") ELSE @)]
    /\ UNCHANGED <<accounts, users, clock, pre>>

\* UserDAO.getById(uid) on the idToken path: 200 with the token the client sent.
LoginGetClient(r) ==
    /\ req[r].pc = "login_get_client"
    /\ \/ req' = [req EXCEPT ![r] =
                    Respond(Spread(@, [ret |-> LoginUser(DaoGetById(users, @.uid), @.uid,
                                                         @.user.email),
                                       outToken |-> @.body.idToken.val]),
                            200, "Authentication successful")]
       \/ req' = [req EXCEPT ![r] = LoginClientCatch(Fault(@, "getById"))]
    /\ UNCHANGED <<accounts, users, clock, pre>>

\* The outer catch of login.
LoginOuterCatch(q) == Respond(q, 500, "An error occurred during authentication")

\* The live password accounts that signInWithPassword accepts for the body.
LoginAccounts(body) ==
    {k \in AccountByEmail(body.email) :
        /\ "provider" \in DOMAIN accounts[k].info
        /\ accounts[k].info.provider = "password"
        /\ accounts[k].password = body.password}

\* fetch(signInWithPassword) and resp.json(): the provider answers ok with the
\* ID token and the uid of the account, answers not ok, answers ok without a
\* token, or the call throws.
LoginFetch(r) ==
    /\ req[r].pc = "login_fetch"
    /\ \/ \E k \in LoginAccounts(req[r].body) :
             req' = [req EXCEPT ![r] =
                       Await(Spread(@, [token |-> TokenOf(k), uid |-> Uid(k)]),
                             "login_verify", "verifyIdToken")]
       \/ req' = [req EXCEPT ![r] =
                    Respond(IF LoginAccounts(@.body) # {}
                            THEN Fault(@, "signInWithPassword") ELSE @,
                            401, "Invalid email or password")]
       \/ req' = [req EXCEPT ![r] =
                    Respond(Fault(@, "signInWithPassword"),
                            500, "Authentication failed (no token returned)")]
       \/ req' = [req EXCEPT ![r] = LoginOuterCatch(Fault(@, "signInWithPassword"))]
    /\ UNCHANGED <<accounts, users, clock, pre>>

\* Faulty variant of LoginAfterVerify: a failed verification is logged and the
\* handler goes on.
LoginAfterVerifyUnchecked(q, ok) == Await(q, "login_get", "getById")

\* The try/catch around verifyIdToken(returnedIdToken).
LoginAfterVerify(q, ok) ==
    IF ok
    THEN Await(q, "login_get", "getById")
    ELSE Respond(q, 401, "Invalid authentication token")

\* auth.verifyIdToken(returnedIdToken) on the token the provider returned.
LoginVerify(r) ==
    /\ req[r].pc = "login_verify"
    /\ \/ /\ DecodeToken(req[r].token) # 0
          /\ req' = [req EXCEPT ![r] =
                       LoginAfterVerify(Spread(@, [verified |-> @.token]), TRUE)]
       \/ req' = [req EXCEPT ![r] = LoginAfterVerify(Fault(@, "verifyIdToken"), FALSE)]
    /\ UNCHANGED <<accounts, users, clock, pre>>

\* UserDAO.getById(uid) on the password path: 200 with the returned token.
LoginGet(r) ==
    /\ req[r].pc = "login_get"
    /\ \/ req' = [req EXCEPT ![r] =
                    Respond(Spread(@, [ret |-> LoginUser(DaoGetById(users, @.uid), @.uid,
                                                         @.body.email),
                                       outToken |-> @.token]),
                            200, "Authentication successful")]
       \/ req' = [req EXCEPT ![r] = LoginOuterCatch(Fault(@, "getById"))]
    /\ UNCHANGED <<accounts, users, clock, pre>>

\* ------------------------------------------------ UserController.socialLogin

\* Bodies of POST /users/social.
SocialBodies ==
    { EmptyObj,
      [idToken |-> JsString(<<>>)],
      [idToken |-> JsNumber(<<"7">>)],
      [idToken |-> JsString(BadToken)],
      [idToken |-> JsString(TokenOf(1))],
      [idToken |-> JsString(TokenOf(2))] }

\* claim ?? fallback
OrElse(obj, f, fallback) == IF f \in DOMAIN obj THEN obj[f] ELSE fallback

\* displayName.split(' ') on a name given as words and spaces: the pieces
\* between the spaces, each a sequence of words.
RECURSIVE SplitSpace(_)
SplitSpace(s) ==
    IF \A i \in 1..Len(s) : s[i] # " "
    THEN <<s>>
    ELSE LET i == CHOOSE i \in 1..Len(s) : s[i] = " " /\ \A j \in 1..(i - 1) : s[j] # " "
         IN  <<SubSeq(s, 1, i - 1)>> \o SplitSpace(SubSeq(s, i + 1, Len(s)))

\* const [firstName = '', lastName = ''] = pieces : the i-th piece, '' when
\* there is none.  Words are never adjacent, so a piece is one word or empty.
PieceOr(pieces, i) ==
    IF i > Len(pieces) \/ pieces[i] = <<>> THEN "" ELSE pieces[i][1]

\* The profile document socialLogin writes when the uid has none.
SocialProfile(decoded, now) ==
    LET pieces == SplitSpace(OrElse(decoded, "name", <<>>))
    IN  [id |-> decoded.uid, firstName |-> PieceOr(pieces, 1),
         lastName |-> PieceOr(pieces, 2), email |-> decoded.email, age |-> 0,
         photo |-> OrElse(decoded, "picture", ""),
         oauth |-> <<OrElse(decoded, "provider", "social")>>,
         createdAt |-> now, updatedAt |-> now, status |-> "offline"]

\* Faulty variant of SocialCatch: the error is thrown again and no response is sent.
SocialCatchRethrows(q) == Spread(q, [pc |-> "escaped"])

\* The catch of socialLogin: whatever threw, the answer is 401.
SocialCatch(q) == Respond(q, 401, "Invalid or expired token")

\* res.status(200).json({ message: 'OK', user: profile, token: idToken })
SocialOk(q, profile) ==
    Respond(Spread(q, [ret |-> profile, outToken |-> q.token]), 200, "OK")

\* POST /users/social arrives: the handler runs up to its first await.
SocialArrive(r, body) ==
    /\ Idle(r)
    /\ LET q == NewReq("social", body, <<>>, Null)
       IN  req' = [req EXCEPT ![r] =
                     IF ~JsTruthy(body, "idToken")
                     THEN Respond(q, 400, "idToken is required")
                     ELSE Await(Spread(q, [token |-> body.idToken.val]),
                                "social_verify", "verifyIdToken")]
    /\ pre' = [pre EXCEPT ![r] = Snapshot]
    /\ UNCHANGED <<accounts, users, clock>>

\* The token verifyIdToken can accept: a string that an account was issued.
SocialDecodable(q) == q.body.idToken.type = "string" /\ DecodeToken(q.token) # 0

\* auth.verifyIdToken(idToken) returns the decoded token, or throws.
SocialVerify(r) ==
    /\ req[r].pc = "social_verify"
    /\ \/ /\ SocialDecodable(req[r])
          /\ LET k == DecodeToken(req[r].token)
             IN  req' = [req EXCEPT ![r] =
                           Await(Spread(@, [verified |-> @.token, uid |-> Uid(k),
                                            decoded |-> Decoded(k)]),
                                 "social_get", "getById")]
       \/ req' = [req EXCEPT ![r] =
                    SocialCatch(IF SocialDecodable(@) THEN Fault(@, "verifyIdToken") ELSE @)]
    /\ UNCHANGED <<accounts, users, clock, pre>>

\* Faulty variant of SocialAfterGet: the profile is written whether or not one exists.
SocialAfterGetAlwaysWrites(q, profile) == Await(q, "social_set", "set")

\* if (!profile) { ... set ... } : an existing profile is answered as it is.
SocialAfterGet(q, profile) ==
    IF profile = EmptyObj THEN Await(q, "social_set", "set") ELSE SocialOk(q, profile)

\* UserDAO.getById(uid) returns the profile or null, or throws.
SocialGet(r) ==
    /\ req[r].pc = "social_get"
    /\ \/ req' = [req EXCEPT ![r] = SocialAfterGet(@, DaoGetById(users, @.uid))]
       \/ req' = [req EXCEPT ![r] = SocialCatch(Fault(@, "getById"))]
    /\ UNCHANGED <<accounts, users, clock, pre>>

\* db.collection('users').doc(uid).set(newProfile) returns, or throws.
SocialSet(r) ==
    /\ req[r].pc = "social_set"
    /\ \/ /\ CanWrite
          /\ users' = DocSet(users, req[r].uid, SocialProfile(req[r].decoded, Now))
          /\ clock' = clock + 1
          /\ req' = [req EXCEPT ![r] = Await(@, "social_reget", "getById")]
       \/ /\ req' = [req EXCEPT ![r] = SocialCatch(Fault(@, "set"))]
          /\ UNCHANGED <<users, clock>>
    /\ UNCHANGED <<accounts, pre>>

\* profile = await UserDAO.getById(uid) after the write: whatever it returns,
\* null included, goes into the 200.
SocialReget(r) ==
    /\ req[r].pc = "social_reget"
    /\ \/ req' = [req EXCEPT ![r] = SocialOk(@, DaoGetById(users, @.uid))]
       \/ req' = [req EXCEPT ![r] = SocialCatch(Fault(@, "getById"))]
    /\ UNCHANGED <<accounts, users, clock, pre>>

\* ------------------------------------------------------------ environment

\* A client signs in with a provider through the client SDK, which creates
\* the account at the identity provider; the backend is not involved.
ExternalSignUp(email, info) ==
    /\ AccountByEmail(email) = {}
    /\ Len(accounts) < MaxAccounts
    /\ accounts' = AccountsAddSocial(email, info)
    /\ UNCHANGED <<users, clock, req, pre>>


\* The response has been sent; the slot takes the next request.
Reset(r) ==
    /\ req[r].pc = "done"
    /\ req' = [s \in Slots |->
                 IF s = r THEN IdleReq ELSE [req[s] EXCEPT !.during = @ \ {r}]]
    /\ pre' = [pre EXCEPT ![r] = NoSnapshot]
    /\ UNCHANGED <<accounts, users, clock>>

\* ---------------------------------------------------------- specification

Init ==
    /\ accounts = <<>>
    /\ users = EmptyObj
    /\ clock = 1
    /\ req = [r \in Slots |-> IdleReq]
    /\ pre = [r \in Slots |-> NoSnapshot]

Arrive(r) ==
    \/ \E body \in RegisterBodies : RegisterArrive(r, body)
    \/ \E body \in GenericBodies : CreateArrive(r, body)
    \/ \E h \in Headers : MeArrive(r, h)
    \/ \E h \in ShortHeaders, id \in PathIds : DeleteArrive(r, h, id)
    \/ \E h \in ShortHeaders, id \in PathIds, body \in GenericBodies : UpdateArrive(r, h, id, body)

Step(r) ==
    \/ AuthVerify(r)
    \/ RegisterCheck(r)
    \/ RegisterCreate(r)
    \/ RegisterSet(r)
    \/ MeGet(r)
    \/ DeleteGet(r)
    \/ DeleteRemove(r)
    \/ DeleteAuth(r)
    \/ CreateAdd(r)
    \/ UpdateDao(r)
    \/ Reset(r)

\* One request at a time: a request arrives when no other is in flight.
Next == \E r \in SeqSlots : (AllIdle /\ Arrive(r)) \/ Step(r)

Spec == Init /\ [][Next]_vars

\* The handlers of UserController behind the router, with the sign-in routes:
\* register, login, socialLogin, me and delete, one request at a time, and
\* clients that sign up with a provider on their own.
UserArrive(r) ==
    \/ \E body \in RegisterBodies : RegisterArrive(r, body)
    \/ \E body \in LoginBodies, apiKey \in BOOLEAN : LoginArrive(r, body, apiKey)
    \/ \E body \in SocialBodies : SocialArrive(r, body)
    \/ \E h \in Headers : MeArrive(r, h)
    \/ \E h \in ShortHeaders, id \in PathIds : DeleteArrive(r, h, id)

UserStep(r) ==
    \/ AuthVerify(r)
    \/ RegisterCheck(r)
    \/ RegisterCreate(r)
    \/ RegisterSet(r)
    \/ LoginVerifyClient(r)
    \/ LoginGetClient(r)
    \/ LoginFetch(r)
    \/ LoginVerify(r)
    \/ LoginGet(r)
    \/ SocialVerify(r)
    \/ SocialGet(r)
    \/ SocialSet(r)
    \/ SocialReget(r)
    \/ MeGet(r)
    \/ DeleteGet(r)
    \/ DeleteRemove(r)
    \/ DeleteAuth(r)
    \/ Reset(r)

UserNext ==
    \/ \E r \in SeqSlots : (AllIdle /\ UserArrive(r)) \/ UserStep(r)
    \/ AllIdle /\ \E info \in SocialInfos : ExternalSignUp("e2", info)

UserSpec == Init /\ [][UserNext]_vars

\* Requests that overlap: a request may arrive on a free slot while the other
\* slot's request is waiting for an external call, and the steps of the two
\* interleave in every order.  All requests are about one user: register with
\* one email, socialLogin with the token of the first account, and delete of
\* the first account's profile with that token.
ConcArrive(r) ==
    \/ RegisterArrive(r, RegisterBodyOk)
    \/ SocialArrive(r, [idToken |-> JsString(TokenOf(1))])
    \/ DeleteArrive(r, Bearer \o TokenOf(1), Uid(1))

ConcStep(r) ==
    \/ AuthVerify(r)
    \/ RegisterCheck(r)
    \/ RegisterCreate(r)
    \/ RegisterSet(r)
    \/ SocialVerify(r)
    \/ SocialGet(r)
    \/ SocialSet(r)
    \/ SocialReget(r)
    \/ DeleteGet(r)
    \/ DeleteRemove(r)
    \/ DeleteAuth(r)
    \/ Reset(r)

ConcNext == \E r \in Slots : ConcArrive(r) \/ ConcStep(r)

ConcSpec == Init /\ [][ConcNext]_vars

\* ------------------------------------------------------------------ claims

Done(r) == req[r].pc = "done"
Protected == {"me", "update", "delete"}

\* The accounts that were live when request r arrived.
PreLive(r) == {k \in 1..Len(pre[r].accounts) : pre[r].accounts[k].live}

\* Request r has left the identity provider and the store as it found them.
Untouched(r) == accounts = pre[r].accounts /\ users = pre[r].users

\* C1: after any sequence of requests no document of 'users' has a password
\* field.  Stated as claimed; POST /users and PUT /users/:id write the body's
\* password into the store.
C1_NoPasswordInStore == \A id \in DOMAIN users : "password" \notin DOMAIN users[id]

\* C2: on GET /users/me, PUT /users/:id and DELETE /users/:id the handler runs
\* only after verifyIdToken succeeded on the bearer token of the same request,
\* and req.user.uid is the uid that token decodes to; a missing header, a header
\* without the 'Bearer ' prefix and a failed verification are answered 401, a
\* token that has not three dot-separated parts 400, none of them running the
\* handler.
C2_AuthGate ==
    \A r \in Slots :
        LET q      == req[r]
            header == Trim(q.header)
        IN  q.route \in Protected =>
              /\ q.pc \in {"me_get", "update_dao", "delete_get", "delete_remove",
                           "delete_auth", "delete_find"} => q.handler
              /\ q.handler =>
                   /\ StartsWith(header, Bearer)
                   /\ q.verified = AuthToken(header)
                   /\ SplitDotLength(q.verified) = 3
                   /\ "verifyIdToken" \in q.calls
                   /\ DecodeToken(q.verified) # 0
                   /\ q.user.uid = Uid(DecodeToken(q.verified))
              /\ Done(r) /\ (header = <<>> \/ ~StartsWith(header, Bearer)) =>
                   q.status = 401 /\ ~q.handler /\ q.calls = {}
              /\ Done(r) /\ StartsWith(header, Bearer)
                         /\ SplitDotLength(AuthToken(header)) # 3 =>
                   q.status = 400 /\ ~q.handler /\ q.calls = {}
              /\ Done(r) /\ "verifyIdToken" \in q.calls /\ q.verified = <<>> =>
                   q.status = 401 /\ ~q.handler /\ q.calls = {"verifyIdToken"}

\* C2 witness: GET /users/me answered 200 for a header whose token came in
\* quotes, after the handler ran for the user of that token.
C2_Witness ==
    \E r \in Slots :
        /\ Done(r) /\ req[r].route = "me" /\ req[r].status = 200
        /\ req[r].header = Bearer \o <<DQ>> \o TokenOf(1) \o <<DQ>>
        /\ req[r].handler /\ req[r].user.uid = Uid(1)

\* C3: a profile document is removed from 'users' only by a DELETE whose
\* authenticated requester has the uid that is the removed document's id.
\* Stated as claimed; the handler never compares the requester with the id.
C3_DeleteOnlyOwn ==
    \A r \in Slots :
        req[r].route = "delete" =>
            \A id \in (DOMAIN pre[r].users) \ (DOMAIN users) :
                id \in UserIds => req[r].user.uid = id

\* Every required field of the body is there and is not the empty string.
RequiredPresent(body) == \A f \in RequiredFields : f \in DOMAIN body /\ body[f] # ""

\* C4: a register request with firstName, lastName, email or password missing
\* or empty is answered 400 without any call to the identity provider or the
\* store, both of which it leaves unchanged.
C4_RegisterMissingFields ==
    \A r \in Slots :
        LET q == req[r]
        IN  (q.route = "register" /\ ~RequiredPresent(q.body)) =>
                /\ Done(r)
                /\ q.status = 400
                /\ q.msg = "Missing required fields"
                /\ q.calls = {}
                /\ Untouched(r)

\* C4 witness: a register request without a password, answered, while the
\* identity provider holds an account.
C4_Witness ==
    \E r \in Slots :
        /\ Done(r) /\ req[r].route = "register"
        /\ DOMAIN req[r].body = RequiredFields \ {"password"}
        /\ LiveUids # {}

\* Request r is a complete register request for an email that a live account
\* had when it arrived.
DuplicateRegister(r) ==
    /\ req[r].route = "register"
    /\ RegisterValid(req[r].body)
    /\ \E k \in PreLive(r) : pre[r].accounts[k].email = req[r].body.email

\* C5 as claimed: a register request whose email already belongs to an
\* identity-provider account is answered 409 'Email already registered' and
\* creates no account and writes no profile document.
C5_DuplicateAlways409 ==
    \A r \in Slots :
        DuplicateRegister(r) /\ Done(r) =>
            /\ req[r].status = 409
            /\ req[r].msg = "Email already registered"
            /\ Untouched(r)

\* C5 amended: such a request is answered 409 'Email already registered' when
\* the existence check getUserByEmail returns the account and 500 when that
\* check fails; in both cases it creates no account and writes no profile
\* document.
C5_DuplicateRejected ==
    \A r \in Slots :
        DuplicateRegister(r) =>
            /\ Untouched(r)
            /\ req[r].uid = Null
            /\ "set" \notin req[r].calls
            /\ Done(r) /\ req[r].checked = "found" =>
                 /\ req[r].status = 409
                 /\ req[r].msg = "Email already registered"
                 /\ req[r].calls = {"getUserByEmail"}
            /\ Done(r) /\ req[r].checked # "found" => req[r].status = 500

\* C5 witness: a duplicate register request answered 409 after its existence
\* check found the account.
C5_Witness ==
    \E r \in Slots :
        DuplicateRegister(r) /\ Done(r) /\ req[r].checked = "found" /\ req[r].status = 409

\* C6: whenever register answers 201, this request created a live account with
\* the given email and wrote a profile document whose key and id field are that
\* account's uid, with status 'offline' and an empty oauth list.
C6_Register201 ==
    \A r \in Slots :
        LET q == req[r]
        IN  q.route = "register" /\ Done(r) /\ q.status = 201 =>
              /\ {"createUser", "set"} \subseteq q.calls
              /\ \E k \in LiveUids :
                    /\ q.uid = Uid(k)
                    /\ k > Len(pre[r].accounts)
                    /\ accounts[k].email = q.body.email
                    /\ Uid(k) \notin DOMAIN pre[r].users
                    /\ Uid(k) \in DOMAIN users
                    /\ users[Uid(k)].id = Uid(k)
                    /\ users[Uid(k)].email = q.body.email
                    /\ users[Uid(k)].status = "offline"
                    /\ users[Uid(k)].oauth = <<>>

\* C6 witness: a second account registered with 201 beside an earlier one.
C6_Witness ==
    \E r \in Slots :
        /\ Done(r) /\ req[r].route = "register" /\ req[r].status = 201
        /\ req[r].uid = Uid(2)
        /\ Uid(1) \in DOMAIN users

\* C7: when the profile write fails after the account was created, register
\* answers 500 and leaves the account in place: the account is live and no
\* profile document has its uid.
C7_NoCompensation ==
    \A r \in Slots :
        LET q == req[r]
        IN  q.route = "register" /\ Done(r) /\ "set" \in q.calls /\ q.status # 201 =>
              /\ q.status = 500
              /\ q.uid[2] \in LiveUids
              /\ q.uid[2] > Len(pre[r].accounts)
              /\ accounts[q.uid[2]].email = q.body.email
              /\ q.uid \notin DOMAIN users

\* C7 witness: register answered 500 and the account it created is live
\* without a profile document.
C7_OrphanAccount ==
    \E r \in Slots :
        /\ Done(r) /\ req[r].route = "register" /\ req[r].status = 500
        /\ req[r].uid # Null
        /\ req[r].uid[2] \in LiveUids
        /\ req[r].uid \notin DOMAIN users

\* C8: the DAO's delete(id), run without interference, returns false and leaves
\* the collection unchanged when no document has that id; when one has, it
\* returns true, getById(id) is null afterwards and every other document is
\* unchanged.
C8_DaoDelete ==
    \A r \in Slots :
        LET q == req[r]
        IN  q.route = "delete" /\ q.deleted # "unset" =>
              /\ q.deleted = "false" <=> q.id \notin DOMAIN pre[r].users
              /\ q.deleted = "false" => users = pre[r].users
              /\ q.deleted = "true" =>
                   /\ DaoGetById(users, q.id) = EmptyObj
                   /\ DOMAIN users = (DOMAIN pre[r].users) \ {q.id}
                   /\ \A d \in DOMAIN users : users[d] = pre[r].users[d]

\* C8 witness: delete(id) has returned true and another document is still in
\* the collection.
C8_Witness ==
    \E r \in Slots :
        /\ req[r].route = "delete" /\ req[r].deleted = "true"
        /\ req[r].id \in DOMAIN pre[r].users
        /\ users # EmptyObj

\* C9: the DAO's create(doc) inserts exactly one new document, under a generated
\* id that no document had, and returns that id; getById(that id) yields the
\* fields of doc with createdAt and updatedAt both set to the server timestamp
\* of the write; the documents that existed are unchanged.
C9_DaoCreate ==
    \A r \in Slots :
        LET q   == req[r]
            got == DaoGetById(users, q.newId)
        IN  q.route = "create" /\ q.newId # Null =>
              /\ q.newId \notin DOMAIN pre[r].users
              /\ DOMAIN users = (DOMAIN pre[r].users) \cup {q.newId}
              /\ \A d \in DOMAIN pre[r].users : users[d] = pre[r].users[d]
              /\ DOMAIN got = (DOMAIN q.body) \cup {"id", "createdAt", "updatedAt"}
              /\ \A f \in (DOMAIN q.body) \ {"createdAt", "updatedAt"} : got[f] = q.body[f]
              /\ got.id = q.newId
              /\ got.createdAt = clock - 1
              /\ got.updatedAt = clock - 1

\* C9 witness: create(doc) has returned for a doc that carries its own
\* createdAt and updatedAt, beside a document that existed before.
C9_Witness ==
    \E r \in Slots :
        /\ req[r].route = "create" /\ req[r].newId # Null
        /\ "createdAt" \in DOMAIN req[r].body
        /\ pre[r].users # EmptyObj

\* C10: the DAO's update(id, data) on an existing document changes only the
\* fields named in data and updatedAt, which is the server timestamp of the
\* write even when data carries an updatedAt; every other field of the document
\* and every other document are unchanged.
C10_DaoUpdate ==
    \A r \in Slots :
        LET q == req[r]
        IN  q.route = "update" /\ q.updated =>
              /\ q.id \in DOMAIN pre[r].users
              /\ DOMAIN users = DOMAIN pre[r].users
              /\ \A d \in (DOMAIN users) \ {q.id} : users[d] = pre[r].users[d]
              /\ LET old == pre[r].users[q.id]
                     new == users[q.id]
                 IN  /\ DOMAIN new = (DOMAIN old) \cup (DOMAIN q.body) \cup {"updatedAt"}
                     /\ new.updatedAt = clock - 1
                     /\ \A f \in (DOMAIN new) \ {"updatedAt"} :
                            new[f] = IF f \in DOMAIN q.body THEN q.body[f] ELSE old[f]

\* C10 witness: update(id, data) has returned for a data that carries its own
\* updatedAt, on a profile that register wrote, beside another document.
C10_Witness ==
    \E r \in Slots :
        /\ req[r].route = "update" /\ req[r].updated
        /\ "updatedAt" \in DOMAIN req[r].body
        /\ req[r].id \in UserIds
        /\ Cardinality(DOMAIN users) > 1

\* The documents that had the requester's email when request r arrived.
DocsByRequesterEmail(r) ==
    {d \in DOMAIN pre[r].users :
        /\ "email" \in DOMAIN pre[r].users[d]
        /\ pre[r].users[d].email = req[r].user.email}

\* C11 as claimed: when no document has the requested id, the user delete
\* handler finds the profile by the authenticated user's email, deletes it and
\* answers 204; it answers 404 only when neither the id nor the email matches.
\* UserDAO has no findByEmail, so the handler never takes the fallback.
C11_DeleteFallsBackToEmail ==
    \A r \in Slots :
        req[r].route = "delete" /\ Done(r) /\ req[r].deleted = "false" =>
            IF DocsByRequesterEmail(r) # {}
            THEN /\ req[r].status = 204
                 /\ \E d \in DocsByRequesterEmail(r) : d \notin DOMAIN users
            ELSE req[r].status = 404

\* The status codes of the user API.
Statuses == {200, 201, 204, 400, 401, 404, 409, 500}

\* C12: register, login, socialLogin, me, delete and the auth middleware send
\* exactly one response per request, with a status among 200, 201, 204, 400,
\* 401, 404, 409 and 500; while a request waits for an external call it has
\* sent nothing and its handler has a continuation for the call's outcome, so
\* no failure of the identity provider or the store escapes or leaves the
\* request unanswered.
C12_OneResponse ==
    [](\A r \in Slots :
          LET q == req[r]
          IN  /\ Done(r) => q.sent = 1 /\ q.status \in Statuses
              /\ ~Done(r) => q.sent = 0
              /\ ~Done(r) /\ ~Idle(r) => ENABLED UserStep(r))

\* A socialLogin whose profile write threw and that was answered all the same.
C12_Witness ==
    \E r \in Slots :
        /\ req[r].route = "social" /\ Done(r)
        /\ "set" \in req[r].faults
        /\ req[r].status = 401 /\ req[r].sent = 1

\* C13: login answers 200 with a token only after verifyIdToken succeeded on
\* exactly that token during the same request, on the idToken path and on the
\* email/password path (the profile lookup that follows runs only then); a
\* failed verification is answered 401; a request with no string idToken and a
\* missing email or password is answered 400 before any external call.
C13_LoginVerified ==
    \A r \in Slots :
        LET q == req[r]
        IN  q.route = "login" =>
              /\ q.pc \in {"login_get_client", "login_get"} =>
                    q.verified = q.token /\ q.verified # <<>>
              /\ Done(r) /\ q.status = 200 =>
                    /\ q.outToken # <<>>
                    /\ q.outToken = q.verified
                    /\ "verifyIdToken" \in q.calls
              /\ Done(r) /\ "verifyIdToken" \in q.calls /\ q.verified = <<>> =>
                    q.status = 401
              /\ (~LoginHasIdToken(q.body)
                    /\ (~Truthy(q.body, "email") \/ ~Truthy(q.body, "password"))) =>
                    Done(r) /\ q.status = 400 /\ q.calls = {}

\* A login by email and password that was answered 200.
C13_Witness ==
    \E r \in Slots :
        /\ req[r].route = "login" /\ Done(r) /\ req[r].status = 200
        /\ "signInWithPassword" \in req[r].calls
        /\ req[r].outToken = TokenOf(1)

\* C14: with one request at a time, after socialLogin answers 200 for a token
\* with uid u a profile document with id u exists; a request that found the
\* document of u already there leaves the whole store as it was (no field of
\* the document, the oauth list included, is overwritten), so a repeated
\* socialLogin, which finds the document the first one ensured, changes nothing.
C14_SocialEnsuresProfile ==
    \A r \in Slots :
        LET q == req[r]
        IN  q.route = "social" =>
              /\ accounts = pre[r].accounts
              /\ Done(r) /\ q.status = 200 =>
                    /\ q.verified = q.body.idToken.val
                    /\ q.uid = Uid(DecodeToken(q.verified))
                    /\ q.uid \in DOMAIN users
                    /\ users[q.uid].id = q.uid
                    /\ q.ret = DaoGetById(users, q.uid)
              /\ q.uid \in DOMAIN pre[r].users => users = pre[r].users
              /\ q.uid \notin DOMAIN pre[r].users =>
                    \A d \in DOMAIN pre[r].users : d \in DOMAIN users /\ users[d] = pre[r].users[d]

\* A socialLogin answered 200 for a uid whose profile register had written:
\* the profile still has the empty oauth list.
C14_Witness ==
    \E r \in Slots :
        /\ req[r].route = "social" /\ Done(r) /\ req[r].status = 200
        /\ req[r].uid \in DOMAIN pre[r].users
        /\ users[req[r].uid].oauth = <<>>

\* C15 as claimed: register calls createUser only when getUserByEmail failed
\* with 'auth/user-not-found'; any other failure of the existence check, with
\* another code or with none, ends the request with 500 and creates neither an
\* account nor a profile.  An error without a code passes the test
\* err.code && err.code !== 'auth/user-not-found' and register goes on.
C15_CreateOnlyAfterNotFound ==
    \A r \in Slots :
        LET q == req[r]
        IN  q.route = "register" =>
              /\ "createUser" \in q.calls => q.checked = "auth/user-not-found"
              /\ q.checked \notin {"unset", "found", "auth/user-not-found"} =>
                    Done(r) /\ q.status = 500 /\ Untouched(r)

\* Requests r and s overlapped: one arrived while the other was in flight.
Overlapped(r, s) == r # s /\ (s \in req[r].during \/ r \in req[s].during)

\* The profile documents with the email.
DocsWithEmail(email) ==
    {d \in DOMAIN users : "email" \in DOMAIN users[d] /\ users[d].email = email}

\* C16 as claimed: two overlapping register requests with the same email, no
\* external call of which failed for a reason of its own, end with at most one
\* 201, at most one live account and one profile of that email, and 409 for the
\* request that did not get 201.  When both pass the existence check before
\* either creates, the second createUser is rejected and the outer catch
\* answers 500.
C16_ConcurrentRegister ==
    \A r, s \in Slots :
        LET a == req[r]
            b == req[s]
        IN  (/\ Overlapped(r, s)
             /\ a.route = "register" /\ b.route = "register"
             /\ Done(r) /\ Done(s)
             /\ a.body.email = b.body.email
             /\ a.faults = {} /\ b.faults = {}) =>
                /\ ~(a.status = 201 /\ b.status = 201)
                /\ Cardinality(AccountByEmail(a.body.email)) <= 1
                /\ Cardinality(DocsWithEmail(a.body.email)) <= 1
                /\ a.status # 201 => a.status = 409

\* C17 as claimed: a DAO delete(id) returns true only if its own remove step
\* took the document out of the collection.  Two overlapping calls both read
\* doc.exists before either removes, and both return true.
C17_DeleteTrueOnlyForOwnRemoval ==
    \A r \in Slots :
        req[r].route = "delete" /\ req[r].deleted = "true" => req[r].removed

\* C18 as claimed: whenever socialLogin answers 200, `user` is a non-null
\* profile whose id is the uid of the verified token, whatever the other
\* request does.  A delete of the profile between the write and the re-read
\* makes getById return null, which goes into the 200.
C18_SocialUserNonNull ==
    \A r \in Slots :
        LET q == req[r]
        IN  q.route = "social" /\ Done(r) /\ q.status = 200 =>
              /\ q.ret # EmptyObj
              /\ q.ret.id = q.uid
              /\ q.uid = Uid(DecodeToken(q.verified))

====
